---- MODULE Spec2Model ----
(***************************************************************************)
(* The oApp canonical migration scripts of wombat-track as a state machine *)
(* over the staging store oapp_staging.db.  Every script run is one        *)
(* action: it reads its export file or the store, executes its inserts in  *)
(* one transaction, commits (or aborts), writes its report and exits.      *)
(* The client of the integration service, config/openai-client-config.py,  *)
(* is modelled beside them: its construction and its method calls.         *)
(*                                                                         *)
(* Identifiers are strings.  Free text (notes, step names) is a sequence   *)
(* of one-character strings, so that the regular expressions of the step   *)
(* extractors are matched character by character.                          *)
(***************************************************************************)
EXTENDS Integers, Sequences, FiniteSets, TLC

VARIABLES
    projects,        \* rows of projects_canonical, in rowid order
    phases,          \* rows of phases_canonical, in rowid order
    steps,           \* rows of steps_canonical, in rowid order
    comms,           \* rows of comms_canonical, in rowid order
    projectsExport,  \* the projects export file on disk
    phasesExport,    \* the phases export file on disk
    logsExport,      \* the agent logs export file on disk
    writable,        \* whether the working directory takes the report files
    client,          \* the OpenAIoAppClient of the process that queries the service
    now,             \* the store's clock, datetime('now')
    run,             \* what the last script run did and reported
    previous         \* the script that ran before the last one

vars == <<projects, phases, steps, comms, projectsExport, phasesExport, logsExport,
         writable, client, now, run, previous>>
tables == <<projects, phases, steps, comms>>
files == <<projectsExport, phasesExport, logsExport, writable>>

(***************************************************************************)
(* Bounds of the model.                                                    *)
(***************************************************************************)
MaxBatch == 2   \* records in one export file
MaxClock == 1   \* clock ticks between the first and the last run
MaxChildren == 1   \* step rows, and communication rows, in a validated store
MaxMerges == 2     \* merger runs whose batches comms_canonical has room for
MaxCalls == 3      \* method calls on one client

(***************************************************************************)
(* Values.                                                                 *)
(***************************************************************************)
\* Python None / pandas NaN / SQL NULL: a key missing from a record is read
\* as None by dict.get and stored as NULL.
NULL == "<NULL>"
\* A JSON value that is an object or an array: sqlite3 cannot bind it.
Nested == "<nested>"

\* No OpenAIoAppClient has been constructed.
NoClient ==
    [constructed |-> FALSE, use_azure_auth |-> FALSE, azure_token |-> NULL,
     session |-> FALSE, api_type |-> NULL, method |-> "none", result |-> "none",
     calls |-> 0]

Min(a, b) == IF a < b THEN a ELSE b
Bit(b) == IF b THEN 1 ELSE 0

Repeat(c, n) == [i \in 1..n |-> c]

(***************************************************************************)
(* The staging store's schema.  The CREATE TABLE statements are not among  *)
(* the sources; the primary keys are those the specification names.        *)
(***************************************************************************)
PrimaryKey ==
    [projects_canonical |-> "projectId",
     phases_canonical   |-> "phaseId",
     steps_canonical    |-> "stepId"]

\* A primary key column is NOT NULL: a row without its key is rejected.
ViolatesNotNull(row, table) == row[PrimaryKey[table]] = NULL

\* Two rows collide on the table's primary key.
SameKey(r1, r2, table) == r1[PrimaryKey[table]] = r2[PrimaryKey[table]]

(***************************************************************************)
(* cursor.execute of one INSERT.  A parameter sqlite3 cannot bind, or a    *)
(* constraint the statement cannot resolve, raises; the table is then      *)
(* unchanged.  INSERT OR REPLACE deletes the row holding the key and       *)
(* appends the new one; a plain INSERT raises on a key already present.    *)
(***************************************************************************)
ScalarColumns ==
    {"projectId", "projectName", "phaseId", "phaseName", "project_ref",
     "phase_ref", "stepId", "status", "agentType"}

Bindable(row) == \A f \in DOMAIN row \cap ScalarColumns : row[f] # Nested

ExecInsertKeepsOld(table, name, row, orReplace) ==
    IF ~Bindable(row) \/ ViolatesNotNull(row, name)
    THEN [ok |-> FALSE, table |-> table]
    ELSE [ok |-> TRUE, table |-> Append(table, row)]

\* INSERT OR IGNORE: the row holding the key stays, nothing is raised.
ExecInsertIgnores(table, name, row, orReplace) ==
    IF ~Bindable(row) \/ ViolatesNotNull(row, name)
    THEN [ok |-> FALSE, table |-> table]
    ELSE IF \E i \in DOMAIN table : SameKey(table[i], row, name)
         THEN [ok |-> orReplace, table |-> table]
         ELSE [ok |-> TRUE, table |-> Append(table, row)]

ExecInsert(table, name, row, orReplace) ==
    IF ~Bindable(row) \/ ViolatesNotNull(row, name)
    THEN [ok |-> FALSE, table |-> table]
    ELSE IF \E i \in DOMAIN table : SameKey(table[i], row, name)
         THEN IF orReplace
              THEN [ok |-> TRUE,
                    table |-> Append(SelectSeq(table, LAMBDA r : ~SameKey(r, row, name)), row)]
              ELSE [ok |-> FALSE, table |-> table]
         ELSE [ok |-> TRUE, table |-> Append(table, row)]

(***************************************************************************)
(* Export files.  A file is absent (or not a {"data": [...]} document) or  *)
(* holds a list of records.  Columns that the scripts copy verbatim and no *)
(* check reads (owner, RAG, dates, goals, ...) are left out of the         *)
(* records and of the rows.                                                *)
(***************************************************************************)
NoFile == [present |-> FALSE, data |-> <<>>]
File(records) == [present |-> TRUE, data |-> records]

\* projects_canonical row of one export record, stamped datetime('now').
ProjectRow(rec, t) ==
    [projectId   |-> rec.projectId,
     projectName |-> rec.projectName,
     createdAt   |-> t,
     updatedAt   |-> t]

\* phases_canonical row of one export record.
PhaseRow(rec) ==
    [phaseId     |-> rec.phaseid,
     phaseName   |-> rec.phasename,
     project_ref |-> rec.WTProjects,
     status      |-> rec.status,
     notes       |-> rec.notes]

ProjectRows(records, t) == [i \in DOMAIN records |-> ProjectRow(records[i], t)]
PhaseRows(records) == [i \in DOMAIN records |-> PhaseRow(records[i])]

(***************************************************************************)
(* The insert loops.  The backfill scripts wrap every execute in its own   *)
(* try/except: a failing row is counted and the loop goes on.              *)
(* 02_import_canonical_data has no try inside the loop: the first failing  *)
(* row leaves the loop and the run's except clause rolls back.             *)
(***************************************************************************)
\* The loop with one try around it: the first failing row ends it.
RECURSIVE InsertEachUntilError(_, _, _, _)
InsertEachUntilError(st, name, rows, orReplace) ==
    IF rows = <<>> THEN st
    ELSE LET r == ExecInsert(st.table, name, Head(rows), orReplace)
         IN  IF r.ok
             THEN InsertEachUntilError(
                      [table         |-> r.table,
                       stored        |-> Append(st.stored, Head(rows)[PrimaryKey[name]]),
                       success_count |-> st.success_count + 1,
                       error_count   |-> st.error_count],
                      name, Tail(rows), orReplace)
             ELSE [st EXCEPT !.error_count = st.error_count + 1]

RECURSIVE InsertEach(_, _, _, _)
InsertEach(st, name, rows, orReplace) ==
    IF rows = <<>> THEN st
    ELSE LET r == ExecInsert(st.table, name, Head(rows), orReplace)
         IN  InsertEach([table         |-> r.table,
                         stored        |-> IF r.ok
                                           THEN Append(st.stored, Head(rows)[PrimaryKey[name]])
                                           ELSE st.stored,
                         success_count |-> st.success_count + Bit(r.ok),
                         error_count   |-> st.error_count + Bit(~r.ok)],
                        name, Tail(rows), orReplace)

RECURSIVE InsertAll(_, _, _)
InsertAll(table, name, rows) ==
    IF rows = <<>> THEN [ok |-> TRUE, table |-> table]
    ELSE LET r == ExecInsert(table, name, Head(rows), FALSE)
         IN  IF r.ok THEN InsertAll(r.table, name, Tail(rows))
             ELSE [ok |-> FALSE, table |-> table]

\* The loop that starts from the emptied table.
LoopEmptied(table) ==
    [table |-> <<>>, stored |-> <<>>, success_count |-> 0, error_count |-> 0]

Loop(table) ==
    [table |-> table, stored |-> <<>>, success_count |-> 0, error_count |-> 0]

(***************************************************************************)
(* What a run leaves behind: its exit code, its connection to the store   *)
(* (none when it never connected, closed, or open when it ended without    *)
(* closing it), whether it committed, whether it wrote its report and the  *)
(* counts in it, the keys of the rows it stored and, for a step extractor, *)
(* the step ids it generated and the step dicts it built; for a validator  *)
(* its verdict, the ids of the phases and steps it found orphaned and its  *)
(* count of orphaned communications, and the coverage statistics of        *)
(* 04_validate_canonical_hierarchy.                                        *)
(***************************************************************************)
NoRun ==
    [script        |-> "none",
     exit          |-> 0,
     conn          |-> "none",
     committed     |-> FALSE,
     report        |-> FALSE,
     record_count  |-> 0,
     success_count |-> 0,
     error_count   |-> 0,
     stored        |-> <<>>,
     step_ids      |-> <<>>,
     extracted     |-> <<>>,
     verdict         |-> "none",
     orphaned_phases |-> <<>>,
     orphaned_steps  |-> <<>>,
     orphaned_comms  |-> 0,
     stats           |-> <<>>]

\* The except clause that writes the report before it exits.
AbortedWithReport(script) ==
    [NoRun EXCEPT !.script = script, !.exit = 1, !.conn = "closed", !.report = TRUE]

\* The except clause that exits with code 0.
AbortedQuietly(script) == [NoRun EXCEPT !.script = script, !.conn = "closed"]

\* except Exception: sys.exit(1), and finally: conn.close()
Aborted(script) == [NoRun EXCEPT !.script = script, !.exit = 1, !.conn = "closed"]

\* conn.commit(), then the report: when open(..., "w") raises, the run has
\* committed and ends in its except clause.
Reported(script, n, st) ==
    [NoRun EXCEPT !.script = script, !.committed = TRUE, !.report = writable,
                  !.exit = IF writable THEN 0 ELSE 1,
                  !.conn = "closed",
                  !.record_count = n,
                  !.stored = st.stored,
                  !.success_count = st.success_count,
                  !.error_count = st.error_count]

\* datetime('now') of a run: the clock has not gone back since the last one.
Tick(t) == t \in now..Min(now + 1, MaxClock)

(***************************************************************************)
(* 02_backfill_projects.py                                                 *)
(***************************************************************************)
BackfillProjects ==
    \E t \in 0..MaxClock :
        /\ Tick(t)
        /\ now' = t
        /\ IF ~projectsExport.present
           THEN /\ run' = Aborted("02_backfill_projects")
                /\ projects' = projects
           ELSE LET st == InsertEach(Loop(projects), "projects_canonical",
                                     ProjectRows(projectsExport.data, t), TRUE)
                IN  /\ projects' = st.table
                    /\ run' = Reported("02_backfill_projects",
                                       Len(projectsExport.data), st)
        /\ previous' = run.script
        /\ UNCHANGED <<phases, steps, comms, files, client>>

(***************************************************************************)
(* 03_backfill_phases.py and 03_backfill_phases_simple.py                  *)
(***************************************************************************)
BackfillPhasesRun(script) ==
    /\ IF ~phasesExport.present
       THEN /\ run' = Aborted(script)
            /\ phases' = phases
       ELSE LET st == InsertEach(Loop(phases), "phases_canonical",
                                 PhaseRows(phasesExport.data), TRUE)
            IN  /\ phases' = st.table
                /\ run' = Reported(script, Len(phasesExport.data), st)
    /\ previous' = run.script
    /\ UNCHANGED <<projects, steps, comms, files, client, now>>

BackfillPhases == BackfillPhasesRun("03_backfill_phases")

BackfillPhasesSimple == BackfillPhasesRun("03_backfill_phases_simple")

(***************************************************************************)
(* oapp_canonical_rebuild_20250802/02_import_canonical_data.py reads CSV   *)
(* exports: every cell is text or, when empty, NaN, which sqlite3 binds as *)
(* NULL.  What a JSON export holds as an object or an array is text here.  *)
(***************************************************************************)
CsvCell(value) == IF value = Nested THEN "{}" ELSE value

CsvProjects(records) ==
    [i \in DOMAIN records |->
        [records[i] EXCEPT !.projectId = CsvCell(@), !.projectName = CsvCell(@)]]

CsvPhases(records) ==
    [i \in DOMAIN records |->
        [records[i] EXCEPT !.phaseid = CsvCell(@), !.phasename = CsvCell(@),
                           !.WTProjects = CsvCell(@)]]

\* The import that commits after each of its two loops: the projects are
\* kept when a phase fails.
ImportCanonicalDataPerTable ==
    \E t \in 0..MaxClock :
        /\ Tick(t)
        /\ now' = t
        /\ \E pr \in {InsertAll(projects, "projects_canonical",
                                ProjectRows(CsvProjects(projectsExport.data), t))} :
           \E ph \in {InsertAll(phases, "phases_canonical",
                                PhaseRows(CsvPhases(phasesExport.data)))} :
               /\ projects' = pr.table
               /\ phases' = ph.table
               /\ run' = IF pr.ok /\ ph.ok
                         THEN [NoRun EXCEPT !.script = "02_import_canonical_data",
                                            !.conn = "closed", !.committed = TRUE]
                         ELSE Aborted("02_import_canonical_data")
        /\ previous' = run.script
        /\ UNCHANGED <<steps, comms, files, client>>

ImportCanonicalData ==
    \E t \in 0..MaxClock :
        /\ Tick(t)
        /\ now' = t
        /\ IF ~projectsExport.present \/ ~phasesExport.present
           THEN /\ run' = [Aborted("02_import_canonical_data") EXCEPT !.conn = "none"]
                /\ UNCHANGED <<projects, phases>>
           ELSE LET pr == InsertAll(projects, "projects_canonical",
                                    ProjectRows(CsvProjects(projectsExport.data), t))
                    ph == InsertAll(phases, "phases_canonical",
                                    PhaseRows(CsvPhases(phasesExport.data)))
                IN  IF pr.ok /\ ph.ok
                    THEN /\ projects' = pr.table
                         /\ phases' = ph.table
                         /\ run' = [NoRun EXCEPT
                                !.script = "02_import_canonical_data",
                                !.conn = "closed",
                                !.committed = TRUE,
                                !.record_count = Len(projectsExport.data)
                                                 + Len(phasesExport.data),
                                !.success_count = Len(projectsExport.data)
                                                  + Len(phasesExport.data)]
                    ELSE /\ UNCHANGED <<projects, phases>>
                         /\ run' = Aborted("02_import_canonical_data")
        /\ previous' = run.script
        /\ UNCHANGED <<steps, comms, files, client>>

(***************************************************************************)
(* Text.  A text is a sequence of characters; a character is a string of   *)
(* length one, and the three task markers are one character each.          *)
(***************************************************************************)
LowerCase == <<"a", "b", "c", "d", "e", "f", "g", "h", "i", "j", "k", "l", "m",
               "n", "o", "p", "q", "r", "s", "t", "u", "v", "w", "x", "y", "z">>
UpperCase == <<"A", "B", "C", "D", "E", "F", "G", "H", "I", "J", "K", "L", "M",
               "N", "O", "P", "Q", "R", "S", "T", "U", "V", "W", "X", "Y", "Z">>
Letters == {LowerCase[i] : i \in DOMAIN LowerCase} \cup {UpperCase[i] : i \in DOMAIN UpperCase}
Digits == {"0", "1", "2", "3", "4", "5", "6", "7", "8", "9"}
SpaceChars == {" ", "\n", "\t"}          \* \s
WordChars == Letters \cup Digits \cup {"_"}  \* \w
CheckMark == "U+2705"    \* the completed-task marker
BoxMark == "U+1F532"     \* the planned-task marker
CycleMark == "U+1F504"   \* the in-progress marker

\* str.lower() of one character, and the characters equal to it ignoring case.
LowerChar(c) ==
    IF \E i \in DOMAIN UpperCase : UpperCase[i] = c
    THEN LowerCase[CHOOSE i \in DOMAIN UpperCase : UpperCase[i] = c]
    ELSE c
IgnoreCase(c) ==
    {c} \cup {LowerCase[i] : i \in {j \in DOMAIN LowerCase : LowerCase[j] = c \/ UpperCase[j] = c}}
        \cup {UpperCase[i] : i \in {j \in DOMAIN LowerCase : LowerCase[j] = c \/ UpperCase[j] = c}}

Take(s, n) == SubSeq(s, 1, Min(n, Len(s)))   \* s[:n]

\* str.strip()
Strip(s) ==
    IF \A i \in DOMAIN s : s[i] \in SpaceChars THEN <<>>
    ELSE LET first == CHOOSE i \in DOMAIN s :
                          s[i] \notin SpaceChars /\ \A k \in 1..(i - 1) : s[k] \in SpaceChars
             last  == CHOOSE i \in DOMAIN s :
                          s[i] \notin SpaceChars /\ \A k \in (i + 1)..Len(s) : s[k] \in SpaceChars
         IN  SubSeq(s, first, last)

\* word in text.lower()
ContainsLower(text, word) ==
    \E p \in 1..(Len(text) - Len(word) + 1) :
        \A k \in DOMAIN word : LowerChar(text[p + k - 1]) = word[k]

\* " ".join(parts)
RECURSIVE JoinSpace(_)
JoinSpace(parts) ==
    IF parts = <<>> THEN <<>>
    ELSE IF Len(parts) = 1 THEN parts[1]
    ELSE parts[1] \o <<" ">> \o JoinSpace(Tail(parts))

(***************************************************************************)
(* Regular expressions, as far as the step patterns use them: a pattern is *)
(* a concatenation of character classes, each taken once, zero or more     *)
(* times (star) or one or more times (plus), greedy, with backtracking; a  *)
(* group is a range of these.  re.IGNORECASE is part of the classes.       *)
(***************************************************************************)
Class(set) == [neg |-> FALSE, set |-> set]
NotClass(set) == [neg |-> TRUE, set |-> set]
InClass(c, cls) == (c \in cls.set) # cls.neg

One(cls) == [cls |-> cls, min |-> 1, many |-> FALSE]
Star(cls) == [cls |-> cls, min |-> 0, many |-> TRUE]
Plus(cls) == [cls |-> cls, min |-> 1, many |-> TRUE]
Literal(word) == [i \in DOMAIN word |-> One(Class(IgnoreCase(word[i])))]

AnyDigit == Class(Digits)               \* \d
AnySpace == Class(SpaceChars)           \* \s
AnyLetter == Class(Letters)             \* [A-Za-z]
NotNewline == NotClass({"\n"})          \* [^\n]
Dot == Class({"."})                     \* \.
Number == <<Plus(AnyDigit), One(Dot), Plus(AnyDigit)>>   \* \d+\.\d+

\* The longest run of characters of the atom's class that starts at pos.
RunLength(text, pos, atom) ==
    IF pos > Len(text) \/ ~InClass(text[pos], atom.cls) THEN 0
    ELSE IF ~atom.many THEN 1
    ELSE (CHOOSE j \in (pos + 1)..(Len(text) + 1) :
              /\ (j = Len(text) + 1 \/ ~InClass(text[j], atom.cls))
              /\ \A k \in pos..(j - 1) : InClass(text[k], atom.cls)) - pos

\* Whether atoms i.. match at pos, each atom taking some run of its class.
RECURSIVE Matches(_, _, _, _)
Matches(atoms, i, text, pos) ==
    \/ i > Len(atoms)
    \/ /\ i <= Len(atoms)
       /\ \E k \in atoms[i].min..RunLength(text, pos, atoms[i]) :
              Matches(atoms, i + 1, text, pos + k)

\* What atom i takes in re's match at pos: the longest run, giving back one
\* character at a time until the rest of the pattern matches.
Taken(atoms, i, text, pos) ==
    LET longest == RunLength(text, pos, atoms[i])
    IN  IF Matches(atoms, i + 1, text, pos + longest) THEN longest
        ELSE CHOOSE k \in atoms[i].min..(longest - 1) :
                 /\ Matches(atoms, i + 1, text, pos + k)
                 /\ \A more \in (k + 1)..(longest - 1) :
                        ~Matches(atoms, i + 1, text, pos + more)

\* The end of each of the atoms i.. in re's match at pos, which exists.
RECURSIVE MatchEnds(_, _, _, _)
MatchEnds(atoms, i, text, pos) ==
    IF i > Len(atoms) THEN <<>>
    ELSE LET end == pos + Taken(atoms, i, text, pos)
         IN  <<end>> \o MatchEnds(atoms, i + 1, text, end)

\* The text of each group of a match that starts at pos.
GroupsOf(pattern, text, pos, ends) ==
    [g \in DOMAIN pattern.groups |->
        LET from == pattern.groups[g][1]
            to   == pattern.groups[g][2]
        IN  SubSeq(text, IF from = 1 THEN pos ELSE ends[from - 1], ends[to] - 1)]

\* Every position a match can start at.
MatchStarts(pattern, text) ==
    {p \in DOMAIN text : /\ InClass(text[p], pattern.atoms[1].cls)
                         /\ Matches(pattern.atoms, 1, text, p)}

\* re.findall: the matches from left to right, none overlapping another.
RECURSIVE Scan(_, _, _, _)
Scan(pattern, text, starts, from) ==
    LET ahead == {p \in starts : p >= from}
    IN  IF ahead = {} THEN <<>>
        ELSE LET p == CHOOSE x \in ahead : \A y \in ahead : x <= y
                 ends == MatchEnds(pattern.atoms, 1, text, p)
             IN  <<GroupsOf(pattern, text, p, ends)>>
                     \o Scan(pattern, text, starts, ends[Len(ends)])

FindAll(pattern, text) == Scan(pattern, text, MatchStarts(pattern, text), 1)

(***************************************************************************)
(* step_patterns of 04_extract_steps.py and 04_extract_steps_simple.py.    *)
(***************************************************************************)
Marked(mark) ==    \* mark\s*([^\n]+)
    [atoms  |-> <<One(Class({mark})), Star(AnySpace), Plus(NotNewline)>>,
     groups |-> <<(<<3, 3>>)>>]

step_patterns ==
    <<  \* StepTaskOutput(\d+\.\d+)[^\n]*([^\n]*)
        [atoms  |-> Literal(<<"S", "t", "e", "p", "T", "a", "s", "k",
                              "O", "u", "t", "p", "u", "t">>)
                        \o Number \o <<Star(NotNewline), Star(NotNewline)>>,
         groups |-> <<(<<15, 17>>), (<<19, 19>>)>>],
        \* (\d+\.\d+)\s*([A-Za-z][^\n]*)
        [atoms  |-> Number \o <<Star(AnySpace), One(AnyLetter), Star(NotNewline)>>,
         groups |-> <<(<<1, 3>>), (<<5, 6>>)>>],
        \* Step\s*(\d+\.\d+)[:\s]*([^\n]*)
        [atoms  |-> Literal(<<"S", "t", "e", "p">>) \o <<Star(AnySpace)>> \o Number
                        \o <<Star(Class({":"} \cup SpaceChars)), Star(NotNewline)>>,
         groups |-> <<(<<6, 8>>), (<<10, 10>>)>>],
        Marked(CheckMark),
        Marked(BoxMark),
        Marked(CycleMark) >>

(***************************************************************************)
(* step_patterns of 03_extract_steps_advanced.py: each pattern is one      *)
(* group.                                                                  *)
(***************************************************************************)
Whole(atoms) == [atoms |-> atoms, groups |-> <<(<<1, Len(atoms)>>)>>]

\* word\s*\d+\.\d+[a-zA-Z]*
Numbered(word) == Whole(Literal(word) \o <<Star(AnySpace)>> \o Number \o <<Star(AnyLetter)>>)

step_patterns_advanced ==
    <<  Numbered(<<"S", "t", "e", "p", "T", "a", "s", "k", "O", "u", "t", "p", "u", "t">>),
        \* WT-\d+\.\d+[a-zA-Z]*\s*Step
        Whole(Literal(<<"W", "T", "-">>) \o Number \o <<Star(AnyLetter), Star(AnySpace)>>
                  \o Literal(<<"S", "t", "e", "p">>)),
        Numbered(<<"S", "t", "e", "p">>),
        Numbered(<<"T", "a", "s", "k">>),
        \* \d+\.\d+[a-zA-Z]*\s*-\s*[A-Za-z]+
        Whole(Number \o <<Star(AnyLetter), Star(AnySpace), One(Class({"-"})),
                          Star(AnySpace), Plus(AnyLetter)>>),
        Numbered(<<"M", "i", "l", "e", "s", "t", "o", "n", "e">>) >>

\* The matches of every pattern in turn, in the order the loops meet them.
RECURSIVE AllMatches(_, _, _)
AllMatches(patterns, i, text) ==
    IF i > Len(patterns) THEN <<>>
    ELSE FindAll(patterns[i], text) \o AllMatches(patterns, i + 1, text)

(***************************************************************************)
(* What the step extractors compute from a phase's notes alone.            *)
(***************************************************************************)
MaxNameLen == 200      \* step_name[:200]
MeaningfulLen == 10    \* len(step_name) > 10
MaxNotesLen == 1000    \* notes[:1000]
TruncatedLen == 197    \* step_name[:197] + "..."

\* What re.sub(r'[^\w\s\-\(\)\[\]\.,:;]', '', ...) keeps.
NameChars == WordChars \cup SpaceChars \cup {"-", "(", ")", "[", "]", ".", ",", ":", ";"}

\* step_name of one findall match: a tuple of groups or a single group.
MatchName(match) ==
    IF Len(match) > 1
    THEN Strip(JoinSpace(SelectSeq(match, LAMBDA g : g # <<>>)))
    ELSE Strip(match[1])

CleanName(name) == Take(SelectSeq(name, LAMBDA c : c \in NameChars), MaxNameLen)

\* 04_extract_steps: the cleaned step_name of every match of every pattern,
\* in the order the loops meet them.
StepNames(notes) ==
    LET matches == AllMatches(step_patterns, 1, notes)
    IN  [i \in DOMAIN matches |-> CleanName(MatchName(matches[i]))]

\* 03_extract_steps_advanced: found_steps, the set of the stripped matches.
FoundSteps(notes) ==
    LET matches == AllMatches(step_patterns_advanced, 1, notes)
    IN  {Strip(matches[i][1]) : i \in DOMAIN matches}

Ellipsis == <<".", ".", ".">>

AdvancedName(step_match) ==
    IF Len(step_match) > MaxNameLen
    THEN Take(step_match, TruncatedLen) \o Ellipsis
    ELSE step_match

\* The inference that knows the word "done" alone.
InferredStatusDoneOnly(notes) ==
    IF ContainsLower(notes, <<"d", "o", "n", "e">>)
    THEN "completed"
    ELSE IF ContainsLower(notes, <<"p", "r", "o", "g", "r", "e", "s", "s">>)
                \/ ContainsLower(notes, <<"w", "o", "r", "k", "i", "n", "g">>)
         THEN "in_progress"
         ELSE "pending"

\* Step status from the keywords in the phase's notes.
InferredStatus(notes) ==
    IF ContainsLower(notes, <<"c", "o", "m", "p", "l", "e", "t", "e">>)
           \/ ContainsLower(notes, <<"d", "o", "n", "e">>)
    THEN "completed"
    ELSE IF ContainsLower(notes, <<"p", "r", "o", "g", "r", "e", "s", "s">>)
                \/ ContainsLower(notes, <<"w", "o", "r", "k", "i", "n", "g">>)
         THEN "in_progress"
         ELSE "pending"

\* notes[:1000]
StoredNotes(notes) == Take(notes, MaxNotesLen)

(***************************************************************************)
(* The notes of the model's phases, and what the extractors compute from   *)
(* each of them, computed once.                                            *)
(***************************************************************************)
\* "Completed task 1.1" and "Step 1.1: setup", the specification's scenario
NotesScenario ==
    <<CheckMark, " ", "C", "o", "m", "p", "l", "e", "t", "e", "d", " ",
      "t", "a", "s", "k", " ", "1", ".", "1", "\n", "S", "t", "e", "p",
      " ", "1", ".", "1", ":", " ", "s", "e", "t", "u", "p">>

\* the same task line twice, once with a character that the cleaning drops
NotesRepeated ==
    <<BoxMark, " ", "S", "t", "e", "p", " ", "2", ".", "1", " ", "d", "e",
      "p", "l", "o", "y", " ", "i", "t", "!", "\n", BoxMark, " ", "S", "t",
      "e", "p", " ", "2", ".", "1", " ", "d", "e", "p", "l", "o", "y", " ",
      "i", "t">>

\* a bare step marker
NotesShort ==
    <<"S", "t", "e", "p", " ", "3", ".", "1">>

\* one line longer than MaxNotesLen
NotesLong ==
    <<CheckMark, " ", "S", "t", "e", "p", " ", "4", ".", "1">> \o Repeat("x", MaxNotesLen)

NotesBlank == <<" ">>

\* a task that is being worked on
NotesProgress ==
    <<"T", "a", "s", "k", " ", "5", ".", "1", " ", "i", "n", " ", "p", "r",
      "o", "g", "r", "e", "s", "s">>

NotesVocabulary ==
    {<<>>, NotesBlank, NotesScenario, NotesRepeated, NotesShort, NotesLong,
     NotesProgress}

Computed(notes) ==
    [names  |-> StepNames(notes),
     found  |-> FoundSteps(notes),
     blank  |-> Strip(notes) = <<>>,
     status |-> InferredStatus(notes),
     stored |-> StoredNotes(notes)]

Scanned == [notes \in NotesVocabulary |-> Computed(notes)]

FromNotes(notes) ==
    IF notes \in NotesVocabulary THEN Scanned[notes] ELSE Computed(notes)

(***************************************************************************)
(* The step extraction of 04_extract_steps.py and                          *)
(* 04_extract_steps_simple.py, over the records of the phases export.      *)
(***************************************************************************)
\* The id numbered on from the rows already in steps_canonical.
StepIdAfterStored(phase_id, step_counter) ==
    phase_id \o "-" \o ToString(Len(steps) + step_counter)

\* f"{phase_id}-{step_counter}"
StepId(phase_id, step_counter) == phase_id \o "-" \o ToString(step_counter)

\* The step dict that refers every step to the phase PH1.
CandidateOfOnePhase(rec, step_name, step_counter) ==
    [stepId      |-> StepId(rec.phaseid, step_counter),
     stepName    |-> step_name,
     phase_ref   |-> "PH1",
     project_ref |-> rec.WTProjects,
     status      |-> rec.status,
     outputNotes |-> FromNotes(rec.notes).stored]

\* The step dict built for one match of a phase record.
Candidate(rec, step_name, step_counter) ==
    [stepId      |-> StepId(rec.phaseid, step_counter),
     stepName    |-> step_name,
     phase_ref   |-> rec.phaseid,
     project_ref |-> rec.WTProjects,
     status      |-> rec.status,
     outputNotes |-> FromNotes(rec.notes).stored]

\* if not notes or not phase_id: continue
Skipped(rec) == rec.notes = <<>> \/ rec.phaseid \in {"", NULL}

\* The filter that asks for a name only.
IsNamed(step) == Len(step.stepName) > 0

IsMeaningful(step) == Len(step.stepName) > MeaningfulLen

\* The loop with a counter that starts again at every record.
RECURSIVE CandidatesPerRecord(_, _)
CandidatesPerRecord(records, step_counter) ==
    IF records = <<>> THEN <<>>
    ELSE IF Skipped(Head(records)) THEN CandidatesPerRecord(Tail(records), step_counter)
    ELSE LET names == FromNotes(Head(records).notes).names
         IN  [i \in DOMAIN names |-> Candidate(Head(records), names[i], step_counter + i)]
                 \o CandidatesPerRecord(Tail(records), step_counter)

\* Every step dict the loop over the records builds, kept or not, the
\* counter running on from one record to the next.
RECURSIVE Candidates(_, _)
Candidates(records, step_counter) ==
    IF records = <<>> THEN <<>>
    ELSE IF Skipped(Head(records)) THEN Candidates(Tail(records), step_counter)
    ELSE LET names == FromNotes(Head(records).notes).names
         IN  [i \in DOMAIN names |-> Candidate(Head(records), names[i], step_counter + i)]
                 \o Candidates(Tail(records), step_counter + Len(names))

SamePair(s1, s2) == s1.stepName = s2.stepName /\ s1.phase_ref = s2.phase_ref

\* DataFrame.drop_duplicates(subset=['stepName', 'phase_ref']): the first
\* row of every pair stays.
DropDuplicates(rows) ==
    LET kept == {i \in DOMAIN rows : \A j \in 1..(i - 1) : ~SamePair(rows[j], rows[i])}
        Nth(k) == CHOOSE i \in kept : Cardinality({j \in kept : j < i}) = k - 1
    IN  [k \in 1..Cardinality(kept) |-> rows[Nth(k)]]

StepIds(rows) == [i \in DOMAIN rows |-> rows[i].stepId]

\* What a run remembers of the step dicts it built.
Built(rows) ==
    [i \in DOMAIN rows |->
        [stepId |-> rows[i].stepId, stepName |-> rows[i].stepName,
         phase_ref |-> rows[i].phase_ref]]

(***************************************************************************)
(* 04_extract_steps.py: build the list, drop the duplicates, insert.       *)
(***************************************************************************)
ExtractSteps ==
    /\ IF ~phasesExport.present
       THEN /\ run' = Aborted("04_extract_steps")
            /\ steps' = steps
       ELSE \E all \in {Candidates(phasesExport.data, 0)} :
            \E steps_df \in {DropDuplicates(SelectSeq(all, IsMeaningful))} :
            \E st \in {InsertEach(Loop(steps), "steps_canonical", steps_df, TRUE)} :
                /\ steps' = st.table
                /\ run' = [Reported("04_extract_steps", Len(steps_df), st) EXCEPT
                               !.step_ids = StepIds(all),
                               !.extracted = Built(steps_df)]
    /\ previous' = run.script
    /\ UNCHANGED <<projects, phases, comms, files, client, now>>

(***************************************************************************)
(* 04_extract_steps_simple.py: insert every meaningful match at once.      *)
(***************************************************************************)
ExtractStepsSimple ==
    /\ IF ~phasesExport.present
       THEN /\ run' = Aborted("04_extract_steps_simple")
            /\ steps' = steps
       ELSE \E all \in {Candidates(phasesExport.data, 0)} :
            \E found \in {SelectSeq(all, IsMeaningful)} :
            \E st \in {InsertEach(Loop(steps), "steps_canonical", found, TRUE)} :
                /\ steps' = st.table
                /\ run' = [Reported("04_extract_steps_simple", Len(found), st) EXCEPT
                               !.step_ids = StepIds(all),
                               !.extracted = Built(found)]
    /\ previous' = run.script
    /\ UNCHANGED <<projects, phases, comms, files, client, now>>

(***************************************************************************)
(* oapp_canonical_rebuild_20250802/03_extract_steps_advanced.py, over the  *)
(* rows of phases_canonical.  The createdAt and updatedAt it alone writes  *)
(* to a step are left out.                                                 *)
(***************************************************************************)
PadWidth == 3          \* {step_counter:03d}

RECURSIVE ZeroPad(_, _)
ZeroPad(digits, width) ==
    IF Len(digits) >= width THEN digits ELSE ZeroPad("0" \o digits, width)

\* f"{phase_id}-S{step_counter:03d}"
AdvancedStepId(phase_id, step_counter) ==
    phase_id \o "-S" \o ZeroPad(ToString(step_counter), PadWidth)

\* The step dict with the ordinal written into its name.
AdvancedRecordNumbered(phase_row, step_match, step_counter) ==
    [stepId      |-> AdvancedStepId(phase_row.phaseId, step_counter),
     stepName    |-> <<ToString(step_counter), ".", " ">> \o AdvancedName(step_match),
     phase_ref   |-> phase_row.phaseId,
     project_ref |-> phase_row.project_ref,
     status      |-> FromNotes(phase_row.notes).status,
     outputNotes |-> FromNotes(phase_row.notes).stored]

\* The step dict built for one element of found_steps.
AdvancedRecord(phase_row, step_match, step_counter) ==
    [stepId      |-> AdvancedStepId(phase_row.phaseId, step_counter),
     stepName    |-> AdvancedName(step_match),
     phase_ref   |-> phase_row.phaseId,
     project_ref |-> phase_row.project_ref,
     status      |-> FromNotes(phase_row.notes).status,
     outputNotes |-> FromNotes(phase_row.notes).stored]

\* The orders in which a for loop can meet the elements of a set of
\* strings: the hash seed of the process decides.
Orders(set) ==
    {order \in [1..Cardinality(set) -> set] :
        \A i, j \in DOMAIN order : i # j => order[i] # order[j]}

\* The steps lists a run over the phase rows can build.
RECURSIVE AdvancedSteps(_, _)
AdvancedSteps(phase_rows, step_counter) ==
    IF phase_rows = <<>> THEN {<<>>}
    ELSE LET row   == Head(phase_rows)
             found == IF FromNotes(row.notes).blank THEN {} ELSE FromNotes(row.notes).found
         IN  UNION {{[i \in DOMAIN order |->
                         AdvancedRecord(row, order[i], step_counter + i - 1)] \o rest :
                       rest \in AdvancedSteps(Tail(phase_rows),
                                              step_counter + Cardinality(found))} :
                    order \in Orders(found)}

ExtractStepsAdvanced ==
    \E list \in AdvancedSteps(phases, 1) :
        LET r == InsertAll(steps, "steps_canonical", list)
        IN  /\ IF list = <<>>
               THEN /\ steps' = steps
                    /\ run' = [NoRun EXCEPT !.script = "03_extract_steps_advanced",
                                            !.conn = "closed"]
               ELSE IF r.ok
               THEN /\ steps' = r.table
                    /\ run' = [NoRun EXCEPT !.script = "03_extract_steps_advanced",
                                            !.conn = "closed",
                                            !.committed = TRUE,
                                            !.record_count = Len(list),
                                            !.success_count = Len(list),
                                            !.stored = StepIds(list),
                                            !.step_ids = StepIds(list),
                                            !.extracted = Built(list)]
               ELSE /\ steps' = steps
                    /\ run' = [Aborted("03_extract_steps_advanced") EXCEPT
                                   !.step_ids = StepIds(list),
                                   !.extracted = Built(list)]
            /\ previous' = run.script
            /\ UNCHANGED <<projects, phases, comms, files, client, now>>

(***************************************************************************)
(* 05_merge_comms.py and 05_merge_comms_simple.py.  A log entry is a JSON   *)
(* object or some other JSON value; its details and its runtime_context are *)
(* objects or not, and a key that an object lacks reads as None.  An entry  *)
(* without details or runtime_context reads as one with an empty object.    *)
(* The timestamp, eventType and messagePayload that the scripts copy are    *)
(* left out of the rows.                                                    *)
(***************************************************************************)
Absent == "<absent>"

\* The truth of a Python value: None and the empty string are false.
Truthy(value) == value \notin {NULL, ""}

\* a or b
PyOr(a, b) == IF Truthy(a) THEN a ELSE b

\* details.get(first) or details.get(second) or runtime_context.get(third)
\* when details is a dict, None otherwise; runtime_context.get raises when
\* it is reached and runtime_context is no dict.
Resolved(entry, first, second, third) ==
    IF ~entry.details.dict THEN [ok |-> TRUE, value |-> NULL]
    ELSE IF Truthy(PyOr(entry.details[first], entry.details[second]))
    THEN [ok |-> TRUE, value |-> PyOr(entry.details[first], entry.details[second])]
    ELSE IF ~entry.runtime_context.dict THEN [ok |-> FALSE, value |-> NULL]
    ELSE [ok |-> TRUE, value |-> entry.runtime_context[third]]

\* The mapping that names every other role "unknown".
AgentTypeOrUnknown(user_role) ==
    IF user_role \in {"developer", "assistant"} THEN "Claude"
    ELSE IF user_role = "architect" THEN "Gizmo"
    ELSE IF user_role = "system" THEN "System"
    ELSE "unknown"

\* entry.get("user_role", "unknown") and the if/elif chain on it
AgentType(user_role) ==
    IF user_role = Absent THEN "unknown"
    ELSE IF user_role = "developer" THEN "Claude"
    ELSE IF user_role = "architect" THEN "Gizmo"
    ELSE IF user_role = "system" THEN "System"
    ELSE IF user_role = "assistant" THEN "Claude"
    ELSE user_role

\* The body of the try for one entry: the row it inserts, or the exception.
Processed(entry) ==
    IF ~entry.dict THEN [ok |-> FALSE, row |-> NULL]
    ELSE LET project_id == Resolved(entry, "projectId", "resource_id", "projectId")
             phase_id   == Resolved(entry, "phase", "phaseId", "phase")
             row == [projectId |-> project_id.value,
                     phaseId   |-> phase_id.value,
                     agentType |-> AgentType(entry.user_role)]
         IN  [ok  |-> project_id.ok /\ phase_id.ok /\ Bindable(row),
              row |-> row]

\* The loop that takes an entry whose processing raises for a success.
RECURSIVE MergeEachCountingAll(_, _)
MergeEachCountingAll(st, logs_data) ==
    IF logs_data = <<>> THEN st
    ELSE MergeEachCountingAll(
             [st EXCEPT !.table = IF Processed(Head(logs_data)).ok
                                  THEN Append(@, Processed(Head(logs_data)).row)
                                  ELSE @,
                        !.success_count = @ + 1],
             Tail(logs_data))

\* The loop that stores no row which the table holds already.
RECURSIVE MergeEachOnce(_, _)
MergeEachOnce(st, logs_data) ==
    IF logs_data = <<>> THEN st
    ELSE MergeEachOnce(
             [st EXCEPT !.table = IF /\ Processed(Head(logs_data)).ok
                                     /\ \A i \in DOMAIN @ :
                                            @[i] # Processed(Head(logs_data)).row
                                  THEN Append(@, Processed(Head(logs_data)).row)
                                  ELSE @,
                        !.success_count = @ + Bit(Processed(Head(logs_data)).ok),
                        !.error_count = @ + Bit(~Processed(Head(logs_data)).ok)],
             Tail(logs_data))

\* for entry in logs_data: try ... except: a plain INSERT into a table
\* without a key of its own appends.
RECURSIVE MergeEach(_, _)
MergeEach(st, logs_data) ==
    IF logs_data = <<>> THEN st
    ELSE MergeEach(
             [st EXCEPT !.table = IF Processed(Head(logs_data)).ok
                                  THEN Append(@, Processed(Head(logs_data)).row)
                                  ELSE @,
                        !.success_count = @ + Bit(Processed(Head(logs_data)).ok),
                        !.error_count = @ + Bit(~Processed(Head(logs_data)).ok)],
             Tail(logs_data))

\* After its commit 05_merge_comms counts the roles with r.get(...) over
\* every entry again, outside the loop's try: an entry that is no object
\* raises there, and the run ends in its except clause.
MergeCommsRun(script) ==
    /\ IF ~logsExport.present
       THEN /\ run' = Aborted(script)
            /\ comms' = comms
       ELSE /\ Len(comms) + Len(logsExport.data) <= MaxMerges * MaxBatch
            /\ \E st \in {MergeEach(Loop(comms), logsExport.data)} :
                   /\ comms' = st.table
                   /\ run' = IF /\ script = "05_merge_comms"
                                /\ \E i \in DOMAIN logsExport.data :
                                       ~logsExport.data[i].dict
                             THEN [Reported(script, Len(logsExport.data), st) EXCEPT
                                       !.report = FALSE, !.exit = 1]
                             ELSE Reported(script, Len(logsExport.data), st)
    /\ previous' = run.script
    /\ UNCHANGED <<projects, phases, steps, files, client, now>>

MergeComms == MergeCommsRun("05_merge_comms")

MergeCommsSimple == MergeCommsRun("05_merge_comms_simple")

(***************************************************************************)
(* SQL as the validators' queries use it: three-valued logic, IN over a    *)
(* subquery, LEFT JOIN on one column, WHERE.                                *)
(***************************************************************************)
SqlIsNull(a) == IF a = NULL THEN "true" ELSE "false"

SqlEq(a, b) ==
    IF a = NULL \/ b = NULL THEN "null" ELSE IF a = b THEN "true" ELSE "false"

SqlNot(p) ==
    IF p = "true" THEN "false" ELSE IF p = "false" THEN "true" ELSE "null"

SqlAnd(p, q) ==
    IF p = "false" \/ q = "false" THEN "false"
    ELSE IF p = "true" /\ q = "true" THEN "true" ELSE "null"

SqlOr(p, q) ==
    IF p = "true" \/ q = "true" THEN "true"
    ELSE IF p = "false" /\ q = "false" THEN "false" ELSE "null"

\* a IN (SELECT ...), over the values the subquery returns.
SqlIn(a, values) ==
    IF values = <<>> THEN "false"
    ELSE IF a = NULL THEN "null"
    ELSE IF \E i \in DOMAIN values : values[i] = a THEN "true"
    ELSE IF \E i \in DOMAIN values : values[i] = NULL THEN "null"
    ELSE "false"

\* SELECT column FROM table
Column(table, column) == [i \in DOMAIN table |-> table[i][column]]

\* A WHERE clause keeps the rows on which its condition is true (not null).
IsTrue(cond) == cond = "true"

\* left LEFT JOIN right ON left.lcol = right.rcol, keeping of the right row
\* its join column: NULL when no right row matches.
RECURSIVE LeftJoin(_, _, _, _)
LeftJoin(left, right, lcol, rcol) ==
    IF left = <<>> THEN <<>>
    ELSE LET matched == SelectSeq(right,
                            LAMBDA r : SqlEq(Head(left)[lcol], r[rcol]) = "true")
         IN  (IF matched = <<>>
              THEN <<[l |-> Head(left), r |-> NULL]>>
              ELSE [i \in DOMAIN matched |-> [l |-> Head(left), r |-> matched[i][rcol]]])
                 \o LeftJoin(Tail(left), right, lcol, rcol)

(***************************************************************************)
(* 06_validate_migration.py                                                *)
(***************************************************************************)
\* The query without its parent.id IS NULL: every referring row is counted.
MigrationOrphansAnyParent(child, parent, ref, id) ==
    SelectSeq(LeftJoin(child, parent, ref, id),
          LAMBDA j : IsTrue(SqlAnd(SqlNot(SqlIsNull(j.l[ref])), SqlNot(SqlEq(j.l[ref], "")))))

\* WHERE parent.id IS NULL AND child.ref IS NOT NULL AND child.ref != ''
MigrationOrphans(child, parent, ref, id) ==
    SelectSeq(LeftJoin(child, parent, ref, id),
          LAMBDA j : IsTrue(SqlAnd(SqlIsNull(j.r),
                            SqlAnd(SqlNot(SqlIsNull(j.l[ref])),
                                   SqlNot(SqlEq(j.l[ref], ""))))))

\* WHERE c.projectId IS NOT NULL AND p.projectId IS NULL
MigrationOrphanedComms(comm_rows, project_rows) ==
    SelectSeq(LeftJoin(comm_rows, project_rows, "projectId", "projectId"),
          LAMBDA j : IsTrue(SqlAnd(SqlNot(SqlIsNull(j.l.projectId)), SqlIsNull(j.r))))

MigrationStatus(total_issues) == IF total_issues = 0 THEN "PASS" ELSE "WARNINGS"

\* The validator that repairs what it finds: it deletes the orphaned
\* communications.
ValidateMigrationRepairing ==
    /\ comms' = SelectSeq(comms, LAMBDA c :
                     \/ c.projectId = NULL
                     \/ \E i \in DOMAIN projects : projects[i].projectId = c.projectId)
    /\ run' = [NoRun EXCEPT !.script = "06_validate_migration", !.report = TRUE,
                            !.conn = "closed", !.verdict = "PASS"]
    /\ previous' = run.script
    /\ UNCHANGED <<projects, phases, steps, files, client, now>>

\* The report is written inside the try and conn.close() is its last
\* statement but for two prints; the except clause prints the error and
\* returns False, and there is no finally.
ValidateMigration ==
    \E orphaned_phases \in {MigrationOrphans(phases, projects, "project_ref", "projectId")} :
    \E orphaned_steps \in {MigrationOrphans(steps, phases, "phase_ref", "phaseId")} :
    \E orphaned_comms \in {MigrationOrphanedComms(comms, projects)} :
    \E status \in {MigrationStatus(Len(orphaned_phases) + Len(orphaned_steps)
                                   + Len(orphaned_comms))} :
        /\ run' = IF writable
                   THEN [NoRun EXCEPT
                       !.script = "06_validate_migration",
                       !.conn = "closed",
                       !.report = TRUE,
                       !.verdict = status,
                       !.exit = IF status = "PASS" THEN 0 ELSE 1,
                       !.orphaned_phases =
                           [i \in DOMAIN orphaned_phases |-> orphaned_phases[i].l.phaseId],
                       !.orphaned_steps =
                           [i \in DOMAIN orphaned_steps |-> orphaned_steps[i].l.stepId],
                       !.orphaned_comms = Len(orphaned_comms)]
                   ELSE [NoRun EXCEPT
                       !.script = "06_validate_migration",
                       !.conn = "open",
                       !.exit = 1]
        /\ previous' = run.script
        /\ UNCHANGED <<tables, files, client, now>>

(***************************************************************************)
(* oapp_canonical_rebuild_20250802/04_validate_canonical_hierarchy.py      *)
(***************************************************************************)
EXPECTED_PROJECTS == 18
EXPECTED_PHASES == 38

\* The query with its NOT IN alone.
HierarchyOrphansNotIn(child, parent, ref, id) ==
    SelectSeq(child, LAMBDA row : IsTrue(SqlNot(SqlIn(row[ref], Column(parent, id)))))

\* WHERE ref NOT IN (SELECT id FROM parent) OR ref IS NULL OR ref = ''
HierarchyOrphans(child, parent, ref, id) ==
    SelectSeq(child,
          LAMBDA row : IsTrue(SqlOr(SqlOr(SqlNot(SqlIn(row[ref], Column(parent, id))),
                                   SqlIsNull(row[ref])),
                             SqlEq(row[ref], ""))))

\* WHERE projectId IS NULL OR projectId = '' OR projectName IS NULL OR projectName = ''
EmptyProjectFields(project_rows) ==
    SelectSeq(project_rows,
          LAMBDA row : IsTrue(SqlOr(SqlOr(SqlIsNull(row.projectId), SqlEq(row.projectId, "")),
                             SqlOr(SqlIsNull(row.projectName), SqlEq(row.projectName, "")))))

\* GROUP BY id HAVING COUNT(*) > 1
Duplicates(table, id) ==
    {table[i][id] : i \in {i \in DOMAIN table :
                              \E j \in DOMAIN table : j # i /\ table[j][id] = table[i][id]}}

\* The verdict without the two count checks.
ValidationPassedAnyCount(project_rows, phase_rows, step_rows) ==
    /\ HierarchyOrphans(phase_rows, project_rows, "project_ref", "projectId") = <<>>
    /\ HierarchyOrphans(step_rows, phase_rows, "phase_ref", "phaseId") = <<>>
    /\ EmptyProjectFields(project_rows) = <<>>
    /\ Duplicates(project_rows, "projectId") = {}
    /\ Duplicates(phase_rows, "phaseId") = {}

ValidationPassed(project_rows, phase_rows, step_rows) ==
    /\ Len(project_rows) = EXPECTED_PROJECTS
    /\ Len(phase_rows) = EXPECTED_PHASES
    /\ HierarchyOrphans(phase_rows, project_rows, "project_ref", "projectId") = <<>>
    /\ HierarchyOrphans(step_rows, phase_rows, "phase_ref", "phaseId") = <<>>
    /\ EmptyProjectFields(project_rows) = <<>>
    /\ Duplicates(project_rows, "projectId") = {}
    /\ Duplicates(phase_rows, "phaseId") = {}

\* project_phase_stats: projects LEFT JOIN phases LEFT JOIN steps, grouped
\* by project.  The join has one row for every step of a phase, one row
\* for a phase without steps and one row for a project without phases;
\* COUNT(column) counts the rows in which the column is not NULL.
ProjectPhaseStats(project_rows, phase_rows, step_rows) ==
    [i \in DOMAIN project_rows |->
        LET joined_phases ==
                {j \in DOMAIN phase_rows :
                    IsTrue(SqlEq(project_rows[i].projectId, phase_rows[j].project_ref))}
            joined_steps ==
                {jk \in joined_phases \X DOMAIN step_rows :
                    IsTrue(SqlEq(phase_rows[jk[1]].phaseId, step_rows[jk[2]].phase_ref))}
            without_steps ==
                {j \in joined_phases : \A k \in DOMAIN step_rows : <<j, k>> \notin joined_steps}
        IN  [projectId   |-> project_rows[i].projectId,
             phase_count |-> Cardinality({jk \in joined_steps :
                                             phase_rows[jk[1]].phaseId # NULL})
                             + Cardinality({j \in without_steps :
                                               phase_rows[j].phaseId # NULL}),
             step_count  |-> Cardinality({jk \in joined_steps :
                                             step_rows[jk[2]].stepId # NULL})]]

\* The validator without the sys.exit(1) of its failed verdict.
ValidateCanonicalHierarchyExitZero ==
    /\ run' = [NoRun EXCEPT
                   !.script = "04_validate_canonical_hierarchy",
                   !.conn = "closed",
                   !.verdict = IF ValidationPassed(projects, phases, steps)
                               THEN "PASSED" ELSE "FAILED"]
    /\ previous' = run.script
    /\ UNCHANGED <<tables, files, client, now>>

ValidateCanonicalHierarchy ==
    \E orphaned_phases \in {HierarchyOrphans(phases, projects, "project_ref", "projectId")} :
    \E orphaned_steps \in {HierarchyOrphans(steps, phases, "phase_ref", "phaseId")} :
    \E validation_passed \in {ValidationPassed(projects, phases, steps)} :
        /\ run' = [NoRun EXCEPT
                       !.script = "04_validate_canonical_hierarchy",
                       !.conn = "closed",
                       !.verdict = IF validation_passed THEN "PASSED" ELSE "FAILED",
                       !.exit = IF validation_passed THEN 0 ELSE 1,
                       !.orphaned_phases =
                           [i \in DOMAIN orphaned_phases |-> orphaned_phases[i].phaseId],
                       !.orphaned_steps =
                           [i \in DOMAIN orphaned_steps |-> orphaned_steps[i].stepId],
                       !.stats = ProjectPhaseStats(projects, phases, steps)]
        /\ previous' = run.script
        /\ UNCHANGED <<tables, files, client, now>>

(***************************************************************************)
(* The export files of the model: every list of at most MaxBatch records   *)
(* of a small vocabulary.                                                  *)
(***************************************************************************)
Batches(records) == UNION {[1..n -> records] : n \in 0..MaxBatch}
Files(records) == {NoFile} \cup {File(b) : b \in Batches(records)}

Project(id, name) == [projectId |-> id, projectName |-> name]

ProjectRecords ==
    {Project("P1", "Alpha"), Project("P1", "Beta"), Project("P2", ""),
     Project(NULL, "Gamma"), Project("P2", Nested)}

Phase(id, name, project, notes) ==
    [phaseid |-> id, phasename |-> name, WTProjects |-> project,
     status |-> "Planned", notes |-> notes]

\* The phase records of the import runs: keys and references of every kind.
ImportPhaseRecords ==
    {Phase("PH1", "Build", "P1", NotesShort), Phase("PH1", "Build", "P9", NotesShort),
     Phase("PH2", "Test", "", <<>>), Phase(NULL, "Ship", "P1", NotesShort),
     Phase("PH2", Nested, NULL, <<>>)}

\* The phase records of the extraction runs: notes of every kind.
ExtractPhaseRecords ==
    {Phase("PH1", "Build", "P1", NotesScenario), Phase("PH1", "Build", "P1", NotesRepeated),
     Phase("PH2", "Test", "P1", NotesRepeated), Phase("PH2", "Test", "P1", NotesShort),
     Phase("PH2", "Test", "P1", NotesLong), Phase("", "Ship", "P1", NotesScenario),
     Phase("PH1", "Build", "P1", NotesBlank),
     [Phase("PH2", "Test", "P1", NotesProgress) EXCEPT !.status = "Complete"]}

(***************************************************************************)
(* The import stage: the store as an earlier import left it, and the two   *)
(* export files; one of them varies over all files, the other over two.    *)
(***************************************************************************)
OldProject == ProjectRow(Project("P1", "Old"), 0)
OldPhase == PhaseRow(Phase("PH1", "Old", "P1", <<>>))

InitImport ==
    /\ projects \in {<<>>, <<OldProject>>}
    /\ phases \in {<<>>, <<OldPhase>>}
    /\ steps = <<>>
    /\ comms = <<>>
    /\ \/ /\ projectsExport \in Files(ProjectRecords)
          /\ phasesExport \in {File(<<>>), File(<<Phase("PH1", "Build", "P1", NotesShort)>>)}
       \/ /\ projectsExport \in {File(<<>>), File(<<Project("P1", "Alpha")>>)}
          /\ phasesExport \in Files(ImportPhaseRecords)
    /\ logsExport = NoFile
    /\ writable = TRUE
    /\ client = NoClient
    /\ now = 0
    /\ run = NoRun
    /\ previous = "none"

NextImport ==
    \/ BackfillProjects
    \/ BackfillPhases
    \/ BackfillPhasesSimple
    \/ ImportCanonicalData

SpecImport == InitImport /\ [][NextImport]_vars

(***************************************************************************)
(* The extraction stage: a store that is empty or holds a phase of an      *)
(* earlier import, and a phases export; the phases are imported and the    *)
(* three extractors run, in any order.                                     *)
(***************************************************************************)
InitExtract ==
    /\ projects = <<>>
    /\ phases \in {<<>>, <<PhaseRow(Phase("PH1", "Build", "P0", NotesShort))>>}
    /\ steps = <<>>
    /\ comms = <<>>
    /\ projectsExport = NoFile
    /\ phasesExport \in Files(ExtractPhaseRecords)
    /\ logsExport = NoFile
    /\ writable = TRUE
    /\ client = NoClient
    /\ now = 0
    /\ run = NoRun
    /\ previous = "none"

NextExtract ==
    \/ BackfillPhasesSimple
    \/ ExtractSteps
    \/ ExtractStepsSimple
    \/ ExtractStepsAdvanced

SpecExtract == InitExtract /\ [][NextExtract]_vars

(***************************************************************************)
(* The validation stage: a store as import, extraction and merge runs can  *)
(* leave it (keys unique and not NULL, references of every kind), small or *)
(* with the expected numbers of projects and phases; the two validators    *)
(* run over it, in any order.                                              *)
(***************************************************************************)
Step(id, phase) ==
    [stepId |-> id, stepName |-> <<"s", "t", "e", "p">>, phase_ref |-> phase,
     project_ref |-> "P1", status |-> "Planned", outputNotes |-> <<>>]

Comm(project) == [projectId |-> project, phaseId |-> NULL, agentType |-> "Claude"]

\* The tables of at most n rows of a vocabulary, the key unique.
Stores(rows, n, key) ==
    {table \in UNION {[1..k -> rows] : k \in 0..n} :
        \A i, j \in DOMAIN table : i # j => table[i][key] # table[j][key]}

StoredProjects ==
    {ProjectRow(Project("P1", "Alpha"), 0), ProjectRow(Project("P2", ""), 0),
     ProjectRow(Project("", "Gamma"), 0)}

StoredPhases ==
    {PhaseRow(Phase("PH1", "Build", "P1", <<>>)), PhaseRow(Phase("PH1", "Build", "P0", <<>>)),
     PhaseRow(Phase("PH2", "Test", "", <<>>)), PhaseRow(Phase("PH2", "Test", NULL, <<>>)),
     PhaseRow(Phase("PH2", "Test", "P2", <<>>))}

StoredStepRows == {Step("S1", "PH1"), Step("S2", "PH0"), Step("S3", ""), Step("S4", NULL)}

StoredComms == {Comm("P1"), Comm("P0"), Comm(""), Comm(NULL)}

ExpectedProjects ==
    [i \in 1..EXPECTED_PROJECTS |-> ProjectRow(Project("P" \o ToString(i), "Alpha"), 0)]

ExpectedPhases ==
    [i \in 1..EXPECTED_PHASES |-> PhaseRow(Phase("PH" \o ToString(i), "Build", "P1", <<>>))]

InitValidate ==
    /\ \/ /\ projects \in Stores(StoredProjects, MaxBatch, "projectId")
          /\ phases \in Stores(StoredPhases, MaxBatch, "phaseId")
       \/ /\ projects = ExpectedProjects
          /\ phases = ExpectedPhases
    /\ steps \in Stores(StoredStepRows, MaxChildren, "stepId")
    /\ comms \in UNION {[1..k -> StoredComms] : k \in 0..MaxChildren}
    /\ projectsExport = NoFile
    /\ phasesExport = NoFile
    /\ logsExport = NoFile
    /\ writable = TRUE
    /\ client = NoClient
    /\ now = 0
    /\ run = NoRun
    /\ previous = "none"

NextValidate ==
    \/ ValidateMigration
    \/ ValidateCanonicalHierarchy

SpecValidate == InitValidate /\ [][NextValidate]_vars

(***************************************************************************)
(* The merge stage: a store with or without a project and a communication  *)
(* of an earlier merge, and an agent logs export of entries of every       *)
(* shape; the two mergers and the migration validator run, in any order.   *)
(***************************************************************************)
\* A JSON value that is an object with these keys, or is no object.
Json(dict, projectId, resource_id, phase) ==
    [dict |-> dict, projectId |-> projectId, resource_id |-> resource_id,
     phase |-> phase, phaseId |-> NULL]

Entry(details, runtime_context, user_role) ==
    [dict |-> TRUE, details |-> details, runtime_context |-> runtime_context,
     user_role |-> user_role]

LogEntries ==
    {Entry(Json(TRUE, "P1", NULL, "PH1"), Json(FALSE, NULL, NULL, NULL), "developer"),
     Entry(Json(TRUE, "", "P2", NULL), Json(TRUE, "P1", NULL, "PH1"), "architect"),
     Entry(Json(TRUE, NULL, "", NULL), Json(TRUE, "P0", NULL, NULL), "weird_role"),
     Entry(Json(TRUE, NULL, NULL, NULL), Json(TRUE, "", NULL, ""), "system"),
     Entry(Json(FALSE, NULL, NULL, NULL), Json(TRUE, "P1", NULL, NULL), "assistant"),
     Entry(Json(TRUE, "P1", NULL, NULL), Json(FALSE, NULL, NULL, NULL), Absent),
     Entry(Json(TRUE, Nested, NULL, "PH1"), Json(TRUE, NULL, NULL, NULL), "developer"),
     Entry(Json(TRUE, "P1", "P2", "PH1"), Json(TRUE, "P0", NULL, NULL), Absent),
     [Entry(Json(TRUE, "P1", NULL, "PH1"), Json(TRUE, NULL, NULL, NULL), "system")
         EXCEPT !.dict = FALSE]}

InitMerge ==
    /\ projects \in {<<>>, <<ProjectRow(Project("P1", "Alpha"), 0)>>}
    /\ phases = <<>>
    /\ steps = <<>>
    /\ comms \in {<<>>, <<Comm("P1")>>}
    /\ projectsExport = NoFile
    /\ phasesExport = NoFile
    /\ logsExport \in Files(LogEntries)
    /\ writable = TRUE
    /\ client = NoClient
    /\ now = 0
    /\ run = NoRun
    /\ previous = "none"

NextMerge ==
    \/ MergeComms
    \/ MergeCommsSimple
    \/ ValidateMigration

SpecMerge == InitMerge /\ [][NextMerge]_vars

(***************************************************************************)
(* The whole pipeline: a store that is empty or holds one step of an       *)
(* earlier extraction over other notes, either the exports of the import   *)
(* and extraction stages or the agent logs export, and a working directory *)
(* that takes the report files or does not; every script runs, in any      *)
(* order, within one tick of the clock.                                    *)
(***************************************************************************)
InitPipeline ==
    /\ projects = <<>>
    /\ phases = <<>>
    /\ steps \in {<<>>, <<Candidate(Phase("PH1", "Build", "P1", NotesRepeated),
                                    FromNotes(NotesRepeated).names[1], 1)>>}
    /\ comms = <<>>
    /\ \/ /\ projectsExport \in {NoFile, File(<<Project("P1", "Alpha")>>)}
          /\ phasesExport \in
                 {NoFile,
                  File(<<Phase("PH1", "Build", "P1", NotesScenario)>>),
                  File(<<Phase("PH2", Nested, "P1", NotesRepeated)>>),
                  File(<<Phase("", "Ship", "P1", NotesScenario)>>),
                  File(<<Phase("PH1", "Build", "P1", NotesScenario),
                         Phase("PH1", "Build", "P1", NotesShort)>>)}
          /\ logsExport = NoFile
       \/ /\ projectsExport = NoFile
          /\ phasesExport = NoFile
          /\ logsExport \in
                 {File(<<Entry(Json(TRUE, "P1", NULL, "PH1"),
                               Json(TRUE, NULL, NULL, NULL), "developer")>>),
                  File(<<Entry(Json(TRUE, "P1", NULL, "PH1"),
                               Json(TRUE, NULL, NULL, NULL), "developer"),
                         [Entry(Json(TRUE, "P1", NULL, "PH1"),
                                Json(TRUE, NULL, NULL, NULL), "system")
                             EXCEPT !.dict = FALSE]>>)}
    /\ writable \in BOOLEAN
    /\ client = NoClient
    /\ now = MaxClock
    /\ run = NoRun
    /\ previous = "none"

NextPipeline ==
    \/ BackfillProjects
    \/ BackfillPhasesSimple
    \/ ImportCanonicalData
    \/ ExtractSteps
    \/ ExtractStepsSimple
    \/ ExtractStepsAdvanced
    \/ MergeComms
    \/ MergeCommsSimple
    \/ ValidateMigration
    \/ ValidateCanonicalHierarchy

SpecPipeline == InitPipeline /\ [][NextPipeline]_vars

(***************************************************************************)
(* config/openai-client-config.py: the client of the integration service.  *)
(* The constructor opens a requests session in its local testing branch    *)
(* only; every method sends its requests through self.session, and reading *)
(* an attribute that was never set raises AttributeError.  The service     *)
(* answers a request with the status 200 or with another one.              *)
(***************************************************************************)
StatusCodes == {200, 500}

\* OpenAIoAppClient(use_azure_auth=..., azure_token=...)
Construct ==
    \E use_azure_auth \in BOOLEAN, azure_token \in {NULL, "", "token"} :
        /\ client' = [NoClient EXCEPT
                          !.constructed = TRUE,
                          !.use_azure_auth = use_azure_auth,
                          !.azure_token = azure_token,
                          !.session = ~(use_azure_auth /\ Truthy(azure_token)),
                          !.api_type = IF use_azure_auth /\ Truthy(azure_token)
                                       THEN "azure" ELSE NULL]
        /\ UNCHANGED <<tables, files, now, run, previous>>

\* A call of a method of the client: what it returns when self.session is
\* there, and the AttributeError otherwise.
Called(method, result) ==
    /\ client.constructed
    /\ client.calls < MaxCalls
    /\ client' = [client EXCEPT
                      !.method = method,
                      !.result = IF client.session THEN result ELSE "AttributeError",
                      !.calls = @ + 1]
    /\ UNCHANGED <<tables, files, now, run, previous>>

HealthCheck ==
    \E status \in StatusCodes :
        Called("health_check", IF status = 200 THEN "healthy" ELSE "unhealthy")

QueryCodebase ==
    \E status \in StatusCodes :
        Called("query_codebase", IF status = 200 THEN "success" ELSE "partial")

AnalyzeProjectStatus == Called("analyze_project_status", "success")

AskQuestion ==
    \E status \in StatusCodes :
        Called("ask_question", IF status = 200 THEN "answer" ELSE "Error")

LogInteraction ==
    \E status \in StatusCodes :
        Called("log_interaction", IF status = 200 THEN "True" ELSE "False")

InitClient ==
    /\ projects = <<>>
    /\ phases = <<>>
    /\ steps = <<>>
    /\ comms = <<>>
    /\ projectsExport = NoFile
    /\ phasesExport = NoFile
    /\ logsExport = NoFile
    /\ writable = TRUE
    /\ client = NoClient
    /\ now = 0
    /\ run = NoRun
    /\ previous = "none"

NextClient ==
    \/ Construct
    \/ HealthCheck
    \/ QueryCodebase
    \/ AnalyzeProjectStatus
    \/ AskQuestion
    \/ LogInteraction

SpecClient == InitClient /\ [][NextClient]_vars

(***************************************************************************)
(* Properties of the importers.                                            *)
(***************************************************************************)
Backfills == {"02_backfill_projects", "03_backfill_phases", "03_backfill_phases_simple"}
Importers == Backfills \cup {"02_import_canonical_data"}

\* The script of the last run has now run twice in a row.
Rerun(script) == run'.script = script /\ run.script = script

RowSet(table) == {table[i] : i \in DOMAIN table}
Unstamped(table) ==
    {[projectId |-> table[i].projectId, projectName |-> table[i].projectName] :
        i \in DOMAIN table}
KeysOnce(table, id) ==
    \A i, j \in DOMAIN table : table[i][id] = table[j][id] => i = j

\* C1 as stated: when an importer runs a second time in a row over the
\* same export files, projects_canonical and phases_canonical hold the same
\* number of rows and the same rows, field by field, as after the first run.
RerunLeavesEveryField ==
    [][(\E script \in Importers : Rerun(script)) =>
          /\ Len(projects') = Len(projects) /\ RowSet(projects') = RowSet(projects)
          /\ Len(phases') = Len(phases) /\ RowSet(phases') = RowSet(phases)]_vars

\* C1, amended: a second run in a row leaves the same number of rows, one
\* row a key, and the same values in every field that comes from the
\* export; the createdAt and updatedAt of the project rows are those of the
\* second run of 02_backfill_projects.  The second run of
\* 02_import_canonical_data changes no row at all.
RerunLeavesImportedFields ==
    [][(\E script \in Importers : Rerun(script)) =>
          /\ Len(projects') = Len(projects)
          /\ Unstamped(projects') = Unstamped(projects)
          /\ KeysOnce(projects', "projectId")
          /\ Len(phases') = Len(phases) /\ RowSet(phases') = RowSet(phases)
          /\ KeysOnce(phases', "phaseId")
          /\ Rerun("02_backfill_projects") =>
                 \A i \in DOMAIN projects' :
                     projects'[i].projectId \in {run'.stored[k] : k \in DOMAIN run'.stored}
                         => projects'[i].createdAt = now' /\ projects'[i].updatedAt = now'
          /\ Rerun("02_import_canonical_data") => projects' = projects]_vars

\* 02_backfill_projects has run twice in a row, the second time later than
\* the first, and phases have been imported twice in a row as well.
RerunWitness ==
    /\ run.script = "02_backfill_projects"
    /\ previous = "02_backfill_projects"
    /\ run.success_count > 0
    /\ \E i \in DOMAIN projects : projects[i].createdAt = MaxClock
    /\ \E i \in DOMAIN projects : projects[i].createdAt = 0

\* The records of a JSON export that no INSERT can store: no key, or a
\* value that is an object or an array.
Unstorable(records, key, name) ==
    {i \in DOMAIN records :
        records[i][key] \in {NULL, Nested} \/ records[i][name] = Nested}

\* The export a backfill script reads, and its records that fail.
Batch(script) ==
    IF script = "02_backfill_projects" THEN projectsExport ELSE phasesExport
Failing(script) ==
    IF script = "02_backfill_projects"
    THEN Unstorable(projectsExport.data, "projectId", "projectName")
    ELSE Unstorable(phasesExport.data, "phaseid", "phasename")

\* The records of a CSV export without a key, and whether the other
\* records find their keys free in the table.
Keyless(records, key) == {i \in DOMAIN records : records[i][key] = NULL}
KeysFree(records, key, table, id) ==
    \A i \in DOMAIN records \ Keyless(records, key) :
        /\ \A j \in DOMAIN records : records[j][key] = records[i][key] => i = j
        /\ \A k \in DOMAIN table : table[k][id] # records[i][key]
OnlyKeylessFail ==
    /\ projectsExport.present /\ phasesExport.present
    /\ KeysFree(CsvProjects(projectsExport.data), "projectId", projects, "projectId")
    /\ KeysFree(CsvPhases(phasesExport.data), "phaseid", phases, "phaseId")
KeylessCount ==
    Cardinality(Keyless(projectsExport.data, "projectId"))
        + Cardinality(Keyless(phasesExport.data, "phaseid"))

LastOfKey(records, key, bad) ==
    {j \in DOMAIN records \ bad :
        /\ \E i \in DOMAIN records \ bad : i < j /\ records[i][key] = records[j][key]
        /\ \A k \in DOMAIN records \ bad : records[k][key] = records[j][key] => k <= j}

\* The table holds the key of the row once, and with the row's fields.
HoldsOnce(table, id, row, fields) ==
    /\ Cardinality({r \in DOMAIN table : table[r][id] = row[id]}) = 1
    /\ \A r \in DOMAIN table : table[r][id] = row[id] =>
           \A f \in fields : table[r][f] = row[f]

ProjectFields == {"projectId", "projectName"}
PhaseFields == {"phaseId", "phaseName", "project_ref", "status", "notes"}

\* The later record of every repeated key is the one row of its key.
LaterProjectsHeld(records, bad, table) ==
    \A j \in LastOfKey(records, "projectId", bad) :
        HoldsOnce(table, "projectId", ProjectRow(records[j], 0), ProjectFields)
LaterPhasesHeld(records, bad, table) ==
    \A j \in LastOfKey(records, "phaseid", bad) :
        HoldsOnce(table, "phaseId", PhaseRow(records[j]), PhaseFields)

\* A run of 02_import_canonical_data finds both files, a key in every
\* record and no key of a record in the tables, and a key twice in a batch.
RepeatedKeyInCsv ==
    /\ projectsExport.present /\ phasesExport.present
    /\ KeylessCount = 0
    /\ \A i \in DOMAIN projectsExport.data : \A k \in DOMAIN projects :
           projects[k].projectId # projectsExport.data[i].projectId
    /\ \A i \in DOMAIN phasesExport.data : \A k \in DOMAIN phases :
           phases[k].phaseId # phasesExport.data[i].phaseid
    /\ \/ LastOfKey(projectsExport.data, "projectId", {}) # {}
       \/ LastOfKey(phasesExport.data, "phaseid", {}) # {}

\* What C14 says of the backfill scripts: no record fails but those that
\* no INSERT can store, and the later record of a repeated key is held.
RepeatedKeyInBackfill ==
    /\ (run'.script = "02_backfill_projects" /\ projectsExport.present) =>
           /\ run'.error_count = Cardinality(Failing("02_backfill_projects"))
           /\ LaterProjectsHeld(projectsExport.data, Failing("02_backfill_projects"),
                                projects')
    /\ (run'.script \in Backfills \ {"02_backfill_projects"} /\ phasesExport.present) =>
           /\ run'.error_count = Cardinality(Failing("03_backfill_phases"))
           /\ LaterPhasesHeld(phasesExport.data, Failing("03_backfill_phases"), phases')

Extractors == {"04_extract_steps", "04_extract_steps_simple", "03_extract_steps_advanced"}

\* The rows of steps_canonical that the last run stored.
StoredSteps ==
    SelectSeq(steps, LAMBDA row : \E k \in DOMAIN run.stored : run.stored[k] = row.stepId)

\* C6: after a run of a step extractor, no two of the step rows it stored
\* have the same stepName and the same phase_ref.
StoredPairsDistinct ==
    (run.script \in Extractors /\ run.committed) =>
        \A i, j \in DOMAIN StoredSteps :
            SamePair(StoredSteps[i], StoredSteps[j]) => i = j

StepKeys(table) ==
    {[stepId |-> table[i].stepId, stepName |-> table[i].stepName,
      phase_ref |-> table[i].phase_ref] : i \in DOMAIN table}

\* C7: when a step extractor runs a second time in a row over the same
\* phases, steps_canonical holds the same rows as after the first run: as
\* many, with the same stepId, stepName and phase_ref, one row a stepId.
ExtractionRerunLeavesSteps ==
    [][(\E script \in Extractors : Rerun(script)) =>
          /\ Len(steps') = Len(steps)
          /\ StepKeys(steps') = StepKeys(steps)
          /\ KeysOnce(steps', "stepId")]_vars

\* 04_extract_steps has run twice in a row and has stored steps of two
\* phases the second time.
ExtractionRerunWitness ==
    /\ run.script = "04_extract_steps"
    /\ previous = "04_extract_steps"
    /\ run.committed
    /\ \E i, j \in DOMAIN StoredSteps : StoredSteps[i].phase_ref # StoredSteps[j].phase_ref

Pairs(rows) == {<<rows[i].stepName, rows[i].phase_ref>> : i \in DOMAIN rows}

\* C8: two runs in a row of a step extractor over the same phases build the
\* same set of (stepName, phase_ref) pairs, in whatever order the second
\* run met the matches.
ExtractionDeterministic ==
    [][(\E script \in Extractors : Rerun(script)) =>
          Pairs(run'.extracted) = Pairs(run.extracted)]_vars

\* 03_extract_steps_advanced has run twice in a row, and the second run
\* gave a stepId of the first run to another step name.
ExtractionDeterministicWitness ==
    /\ run.script = "03_extract_steps_advanced"
    /\ previous = "03_extract_steps_advanced"
    /\ \E i \in DOMAIN run.extracted, k \in DOMAIN steps :
        /\ steps[k].stepId = run.extracted[i].stepId
        /\ steps[k].stepName # run.extracted[i].stepName
        /\ <<steps[k].stepName, steps[k].phase_ref>> \in Pairs(run.extracted)

\* C9: the step ids generated in one run of a step extractor are all
\* distinct, across all phases.
StepIdsDistinct ==
    run.script \in Extractors =>
        \A i, j \in DOMAIN run.step_ids : run.step_ids[i] = run.step_ids[j] => i = j

\* A run of 04_extract_steps has generated ids for two export records of
\* the same phase.
StepIdsWitness ==
    /\ run.script = "04_extract_steps"
    /\ Len(phasesExport.data) = MaxBatch
    /\ \A i \in DOMAIN phasesExport.data :
        phasesExport.data[i].phaseid = "PH1" /\ phasesExport.data[i].notes # NotesBlank
    /\ Len(run.step_ids) > MaxBatch

\* C10 as stated: every step row stored by a run of a step extractor has a
\* stepName of 11 to 200 characters and an outputNotes of at most 1000
\* characters.
StoredNameAndNotesBounded ==
    (run.script \in Extractors /\ run.committed) =>
        \A i \in DOMAIN StoredSteps :
            /\ Len(StoredSteps[i].stepName) > MeaningfulLen
            /\ Len(StoredSteps[i].stepName) <= MaxNameLen
            /\ Len(StoredSteps[i].outputNotes) <= MaxNotesLen

\* C10, amended: every step row stored by a run of a step extractor has a
\* stepName of at most 200 characters and an outputNotes of at most 1000
\* characters; in 04_extract_steps and 04_extract_steps_simple the stepName
\* has at least 11 characters, in 03_extract_steps_advanced it may be
\* shorter.
StoredNameAndNotesBoundedByScript ==
    (run.script \in Extractors /\ run.committed) =>
        \A i \in DOMAIN StoredSteps :
            /\ Len(StoredSteps[i].stepName) >= 1
            /\ Len(StoredSteps[i].stepName) <= MaxNameLen
            /\ Len(StoredSteps[i].outputNotes) <= MaxNotesLen
            /\ run.script # "03_extract_steps_advanced" =>
                   Len(StoredSteps[i].stepName) > MeaningfulLen

\* 04_extract_steps has stored a step with a name cut at 200 characters and
\* notes cut at 1000, from an export that also held a name of under 11
\* characters, which it has not stored.
StoredNameAndNotesWitness ==
    /\ run.script = "04_extract_steps"
    /\ run.committed
    /\ \E i \in DOMAIN phasesExport.data : phasesExport.data[i].notes = NotesShort
    /\ Len(run.step_ids) > Len(run.stored)
    /\ \E i \in DOMAIN StoredSteps :
        /\ Len(StoredSteps[i].stepName) = MaxNameLen
        /\ Len(StoredSteps[i].outputNotes) = MaxNotesLen

\* The phases a step extractor read: the records of the phases export, or
\* for 03_extract_steps_advanced the rows of phases_canonical.
Source ==
    IF run.script = "03_extract_steps_advanced"
    THEN [i \in DOMAIN phases |->
             [id |-> phases[i].phaseId, project |-> phases[i].project_ref,
              status |-> phases[i].status, notes |-> phases[i].notes]]
    ELSE [i \in DOMAIN phasesExport.data |->
             [id |-> phasesExport.data[i].phaseid,
              project |-> phasesExport.data[i].WTProjects,
              status |-> phasesExport.data[i].status,
              notes |-> phasesExport.data[i].notes]]

\* The phases that a stored step can have been extracted from.
SourcesOf(step) ==
    {i \in DOMAIN Source :
        /\ Source[i].id = step.phase_ref
        /\ Take(Source[i].notes, MaxNotesLen) = step.outputNotes}

Mentions(notes, word) == ContainsLower(notes, word)

KeywordStatus ==
    [notes \in NotesVocabulary |->
        IF Mentions(notes, <<"c", "o", "m", "p", "l", "e", "t", "e">>)
               \/ Mentions(notes, <<"d", "o", "n", "e">>)
        THEN "completed"
        ELSE IF Mentions(notes, <<"p", "r", "o", "g", "r", "e", "s", "s">>)
                    \/ Mentions(notes, <<"w", "o", "r", "k", "i", "n", "g">>)
             THEN "in_progress"
             ELSE "pending"]

NamesFrom(i) ==
    IF run.script = "03_extract_steps_advanced"
    THEN IF FromNotes(Source[i].notes).blank THEN {}
         ELSE {AdvancedName(m) : m \in FromNotes(Source[i].notes).found}
    ELSE IF Source[i].notes = <<>> \/ Source[i].id \in {"", NULL} THEN {}
         ELSE {n \in {FromNotes(Source[i].notes).names[k] :
                         k \in DOMAIN FromNotes(Source[i].notes).names} :
                 Len(n) > MeaningfulLen}

\* C12: every step that a step extractor stored refers to the phase whose
\* notes gave its name, and every name that the notes of a phase gave is
\* the name of a stored step that refers to that phase: the stored steps
\* that refer to a phase are those extracted from its own notes.
StepsReferToTheirPhase ==
    (run.script \in Extractors /\ run.committed) =>
        /\ \A k \in DOMAIN StoredSteps :
               \E i \in SourcesOf(StoredSteps[k]) :
                   StoredSteps[k].stepName \in NamesFrom(i)
        /\ \A i \in DOMAIN Source : \A n \in NamesFrom(i) :
               \E k \in DOMAIN StoredSteps :
                   /\ StoredSteps[k].stepName = n
                   /\ StoredSteps[k].phase_ref = Source[i].id

\* A run has stored steps of two phases, and a name that the notes of one
\* phase gave and the notes of the other did not.
StepsReferWitness ==
    /\ run.script \in Extractors
    /\ run.committed
    /\ \E i, j \in DOMAIN Source :
        /\ Source[i].id # Source[j].id
        /\ NamesFrom(j) # {}
        /\ \E n \in NamesFrom(i) : n \notin NamesFrom(j)

\* C13: every step whose phase_ref is the phaseId of a row of
\* phases_canonical has the project_ref of that row, in every state that
\* phase imports and step extractions reach.
ProjectRefOfStepIsOfPhase ==
    \A k \in DOMAIN steps : \A i \in DOMAIN phases :
        phases[i].phaseId = steps[k].phase_ref =>
            steps[k].project_ref = phases[i].project_ref

(***************************************************************************)
(* Properties of the communications mergers.                               *)
(***************************************************************************)
Mergers == {"05_merge_comms", "05_merge_comms_simple"}

\* The last run was a merger run that read the logs export.
Merged == run.script \in Mergers /\ logsExport.present

\* The rows that the last merger run added to comms_canonical.
NewRows == SubSeq(comms, Len(comms) - run.success_count + 1, Len(comms))

\* The ways in which the added rows can come from entries of the export,
\* in the order of the export.
Picks ==
    {pick \in [DOMAIN NewRows -> DOMAIN logsExport.data] :
        \A j, k \in DOMAIN NewRows : j < k => pick[j] < pick[k]}

NonEmpty(value) == value \notin {NULL, ""}

\* The first non-empty value of the three places, or null.
FirstNonEmpty(entry) ==
    IF NonEmpty(entry.details.projectId) THEN entry.details.projectId
    ELSE IF NonEmpty(entry.details.resource_id) THEN entry.details.resource_id
    ELSE IF NonEmpty(entry.runtime_context.projectId) THEN entry.runtime_context.projectId
    ELSE NULL

\* C15: the projectId of every communication that a merger stored is the
\* first non-empty value of the entry's details.projectId,
\* details.resource_id and runtime_context.projectId, or null when none is,
\* also when details is no object; it is never the empty string.
ProjectIdIsFirstNonEmpty ==
    Merged =>
        /\ \E pick \in Picks :
               \A j \in DOMAIN NewRows :
                   NewRows[j].projectId = FirstNonEmpty(logsExport.data[pick[j]])
        /\ \A j \in DOMAIN NewRows : NewRows[j].projectId # ""

\* The agent type that the mapping gives to a role string.
MappedRole(role) ==
    CASE role = "developer" -> "Claude"
      [] role = "architect" -> "Gizmo"
      [] role = "system"    -> "System"
      [] role = "assistant" -> "Claude"
      [] OTHER              -> role

\* C16: the agentType of every communication that a merger stored is
\* Claude for the role developer or assistant, Gizmo for architect, System
\* for system, and the role itself for every other role string.
AgentTypeMapsRole ==
    Merged =>
        \E pick \in Picks :
            \A j \in DOMAIN NewRows :
                logsExport.data[pick[j]].user_role # Absent =>
                    NewRows[j].agentType = MappedRole(logsExport.data[pick[j]].user_role)

\* A merger has stored, in one run, a communication of an architect and
\* one of a role that the mapping does not know.
AgentTypeWitness ==
    /\ Merged
    /\ \E j, k \in DOMAIN NewRows :
           /\ NewRows[j].agentType = "Gizmo"
           /\ NewRows[k].agentType = "weird_role"

\* The entries of the logs export whose processing raises.
Malformed == {i \in DOMAIN logsExport.data : ~Processed(logsExport.data[i]).ok}

\* The step is a run of a merger over the logs export.
Merging == run'.script \in Mergers /\ logsExport.present

\* C17: a merger run counts every entry whose processing raises in
\* error_count and stores no row for it, stores a row for every other
\* entry of the batch and commits, and success_count + error_count is the
\* number of entries.
MalformedEntryIsolated ==
    [][Merging =>
          /\ run'.committed
          /\ run'.error_count = Cardinality(Malformed)
          /\ run'.success_count + run'.error_count = Len(logsExport.data)
          /\ Len(comms') = Len(comms) + Len(logsExport.data) - Cardinality(Malformed)]_vars

\* A merger has read a full batch whose first entry alone is malformed and
\* has stored the others.
MalformedEntryWitness ==
    /\ Merged
    /\ Len(logsExport.data) = MaxBatch
    /\ Malformed = {1}
    /\ run.error_count = 1
    /\ Len(NewRows) = MaxBatch - 1

\* C18: a merger run leaves every row that comms_canonical held as it was
\* and where it was and adds success_count rows after them; a second
\* merger run in a row over the same logs export adds the same rows again.
CommsAppendOnly ==
    [][Merging =>
          /\ Len(comms') = Len(comms) + run'.success_count
          /\ SubSeq(comms', 1, Len(comms)) = comms
          /\ run.script \in Mergers =>
                 SubSeq(comms', Len(comms) + 1, Len(comms')) = NewRows]_vars

\* Two merger runs in a row have stored a full batch each, and
\* comms_canonical holds every row of the batch twice.
CommsAppendWitness ==
    /\ Merged
    /\ previous \in Mergers
    /\ run.success_count = MaxBatch
    /\ Len(comms) = 2 * MaxBatch
    /\ SubSeq(comms, 1, MaxBatch) = NewRows

(***************************************************************************)
(* Properties of the validators.                                           *)
(***************************************************************************)
Validators == {"06_validate_migration", "04_validate_canonical_hierarchy"}

IsEmpty(ref) == ref = NULL \/ ref = ""
Resolves(ref, parent, id) == \E j \in DOMAIN parent : parent[j][id] = ref
Counted(id, ids) == \E k \in DOMAIN ids : ids[k] = id

\* C3: after a run of either validator, a phase with a non-empty
\* project_ref is among the phases the run found orphaned if and only if no
\* project row has that project_ref as its projectId.
OrphanedPhaseIffNoProject ==
    run.script \in Validators =>
        \A i \in DOMAIN phases :
            ~IsEmpty(phases[i].project_ref) =>
                (Counted(phases[i].phaseId, run.orphaned_phases)
                    <=> ~Resolves(phases[i].project_ref, projects, "projectId"))

\* A validator has run over a store with projects, with a phase whose
\* project exists and with a phase it found orphaned.
OrphanedPhaseWitness ==
    /\ run.script = "04_validate_canonical_hierarchy"
    /\ projects # <<>>
    /\ \E i, j \in DOMAIN phases :
        /\ ~IsEmpty(phases[i].project_ref) /\ ~IsEmpty(phases[j].project_ref)
        /\ Counted(phases[i].phaseId, run.orphaned_phases)
        /\ ~Counted(phases[j].phaseId, run.orphaned_phases)

Unresolved(child, parent, ref, id) ==
    {i \in DOMAIN child : ~IsEmpty(child[i][ref]) /\ ~Resolves(child[i][ref], parent, id)}

NoOrphans ==
    /\ Unresolved(phases, projects, "project_ref", "projectId") = {}
    /\ Unresolved(steps, phases, "phase_ref", "phaseId") = {}
    /\ Unresolved(comms, projects, "projectId", "projectId") = {}

Passed == run.verdict \in {"PASS", "PASSED"}

UnresolvedComms ==
    {i \in DOMAIN comms :
        ~IsEmpty(comms[i].projectId) /\ ~Resolves(comms[i].projectId, projects, "projectId")}

\* C19: after a run of 06_validate_migration, the communications it counts
\* as orphaned are those whose projectId is non-empty and is the projectId
\* of no project row; a communication whose projectId is null or the empty
\* string is not counted.
OrphanedCommsAreUnresolved ==
    run.script = "06_validate_migration" =>
        run.orphaned_comms = Cardinality(UnresolvedComms)

\* C20: a run of a validator, whatever its verdict, leaves the rows of
\* projects_canonical, phases_canonical, steps_canonical and
\* comms_canonical as they were.
ValidatorsReadOnly ==
    [][run'.script \in Validators => tables' = tables]_vars

\* Both validators have run, one after the other, over a store with an
\* orphaned phase, an orphaned step and an orphaned communication, which
\* the store still holds.
ValidatorsReadOnlyWitness ==
    /\ run.script = "06_validate_migration"
    /\ previous = "04_validate_canonical_hierarchy"
    /\ run.verdict = "WARNINGS"
    /\ Unresolved(phases, projects, "project_ref", "projectId") # {}
    /\ Unresolved(steps, phases, "phase_ref", "phaseId") # {}
    /\ UnresolvedComms # {}

(***************************************************************************)
(* Properties of every stage of the pipeline.                              *)
(***************************************************************************)
\* C21: a run that has opened its connection to the staging store has
\* closed it when it ends, on success and after an exception alike.
ConnectionReleased == run.conn # "open"

\* A record's key is rejected by a plain INSERT: it is null, or the table
\* or an earlier record of the file holds it.
Rejected(records, key, table, id) ==
    \E i \in DOMAIN records :
        \/ records[i][key] = NULL
        \/ Resolves(records[i][key], table, id)
        \/ \E j \in 1..(i - 1) : records[j][key] = records[i][key]

\* The inputs on which a run of the script raises outside the try of its
\* loop and before its commit.
Fatal(script) ==
    CASE script = "02_backfill_projects" -> ~projectsExport.present
      [] script \in {"03_backfill_phases", "03_backfill_phases_simple",
                     "04_extract_steps", "04_extract_steps_simple"} ->
             ~phasesExport.present
      [] script \in Mergers -> ~logsExport.present
      [] script = "02_import_canonical_data" ->
             \/ ~projectsExport.present
             \/ ~phasesExport.present
             \/ Rejected(projectsExport.data, "projectId", projects, "projectId")
             \/ Rejected(phasesExport.data, "phaseid", phases, "phaseId")
      [] OTHER -> FALSE

\* The step is a run of 03_extract_steps_advanced that builds a step whose
\* id steps_canonical holds already: its plain INSERT raises.
StepIdMetAgain ==
    /\ run'.script = "03_extract_steps_advanced"
    /\ \E i \in DOMAIN run'.step_ids : Counted(run'.step_ids[i], StepIds(steps))

\* C22: a run that meets a fatal error before its commit (an export file
\* that is missing, a key that a plain INSERT rejects, a step id that the
\* store holds already) commits nothing, leaves every table as it was
\* before the run and exits with a non-zero code.
FatalErrorDiscardsRun ==
    [][(Fatal(run'.script) \/ StepIdMetAgain)
           => /\ ~run'.committed
              /\ tables' = tables
              /\ run'.exit # 0]_vars

\* 02_import_canonical_data has found both files and a project that an
\* earlier backfill had stored, and has left the store with that project.
FatalErrorWitness ==
    /\ run.script = "02_import_canonical_data"
    /\ previous = "02_backfill_projects"
    /\ projectsExport.present /\ phasesExport.present
    /\ projects # <<>> /\ phases = <<>>
    /\ run.exit = 1 /\ ~run.committed

\* C23: no run has both committed its rows and exited with a non-zero
\* code.
CommitIsLastStep == ~(run.committed /\ run.exit # 0)

Reporters ==
    Backfills \cup Mergers \cup {"04_extract_steps", "04_extract_steps_simple"}

\* The inputs on which a run of the script raises after its loop: its
\* report file cannot be written, or 05_merge_comms counts the roles of an
\* entry that is no object.
FailsAfterLoop(script) ==
    \/ script \in Reporters \cup {"06_validate_migration"} /\ ~writable
    \/ /\ script = "05_merge_comms"
       /\ \E i \in DOMAIN logsExport.data : ~logsExport.data[i].dict

\* C24: a run exits with code 0 if and only if nothing raised outside the
\* try of its loop and, when it is a validator run, its verdict is the
\* passing one; the errors caught and counted for single records do not
\* enter the exit code.
ExitCodeTellsOutcome ==
    [][run'.exit = 0 <=>
          /\ ~Fatal(run'.script)
          /\ ~StepIdMetAgain
          /\ ~FailsAfterLoop(run'.script)
          /\ run'.script \in Validators => run'.verdict \in {"PASS", "PASSED"}]_vars

\* A phases backfill that followed a run of 06_validate_migration has
\* caught and counted the insert error of its one record, written its
\* report and exited with code 0.
ExitCodeWitness ==
    /\ run.script = "03_backfill_phases_simple"
    /\ previous = "06_validate_migration"
    /\ run.error_count = 1
    /\ run.success_count = 0
    /\ run.report
    /\ run.exit = 0

(***************************************************************************)
(* Properties of the coverage statistics.                                  *)
(***************************************************************************)
\* The phase rows of a project, and the step rows of those phases.
PhasesOf(projectId) == {j \in DOMAIN phases : phases[j].project_ref = projectId}
StepsOf(projectId) ==
    {k \in DOMAIN steps :
        \E j \in PhasesOf(projectId) : steps[k].phase_ref = phases[j].phaseId}

\* C25: after a run of 04_validate_canonical_hierarchy, the phase_count it
\* reports for a project is the number of phase rows whose project_ref is
\* the project's id, and the step_count is the number of step rows that refer
\* to those phases, also when a phase has more than one step.
StatsCountRows ==
    run.script = "04_validate_canonical_hierarchy" =>
        \A i \in DOMAIN projects :
            /\ run.stats[i].phase_count = Cardinality(PhasesOf(projects[i].projectId))
            /\ run.stats[i].step_count = Cardinality(StepsOf(projects[i].projectId))

(***************************************************************************)
(* Properties of the order of the stages.                                  *)
(***************************************************************************)
\* The step is a validator run that follows the run of a step extractor
\* which committed, which followed a phases backfill over the phases
\* export, in a working directory that takes the reports.
ValidatesExtraction ==
    /\ run'.script \in Validators
    /\ run.script \in Extractors
    /\ run.committed
    /\ previous = "03_backfill_phases_simple"
    /\ phasesExport.present
    /\ writable

\* C26: a validator run that follows the phase importer and then a step
\* extractor, each committed over the same phase data, finds none of the
\* steps that the extractor stored orphaned, also when the insert of a
\* phase was counted as an error and when a phase has an empty phaseId and
\* notes.
ExtractedStepsNotOrphaned ==
    [][ValidatesExtraction =>
          \A i \in DOMAIN run'.orphaned_steps :
              ~Counted(run'.orphaned_steps[i], run.stored)]_vars

(***************************************************************************)
(* Properties of 02_import_canonical_data.                                 *)
(***************************************************************************)
\* The table holds its old rows and, after them, a row for every record.
Appended(old, new, records, key, id) ==
    /\ Len(new) = Len(old) + Len(records)
    /\ SubSeq(new, 1, Len(old)) = old
    /\ \A i \in DOMAIN records : new[Len(old) + i][id] = records[i][key]

\* C27: a run of 02_import_canonical_data either commits a row for every
\* record of the projects file and of the phases file, or, when a file is
\* missing or an insert raises, commits nothing, leaves projects_canonical
\* and phases_canonical as they were and exits with a non-zero code.
ImportAllOrNothing ==
    [][run'.script = "02_import_canonical_data" =>
          IF Fatal("02_import_canonical_data")
          THEN /\ ~run'.committed
               /\ run'.exit # 0
               /\ projects' = projects
               /\ phases' = phases
          ELSE /\ run'.committed
               /\ run'.exit = 0
               /\ Appended(projects, projects', projectsExport.data,
                           "projectId", "projectId")
               /\ Appended(phases, phases', phasesExport.data,
                           "phaseid", "phaseId")]_vars

\* 02_import_canonical_data has found a projects file whose every record it
\* could insert and a phases file with a phase the store held already, and
\* the store holds no project of the file.
ImportAllOrNothingWitness ==
    /\ run.script = "02_import_canonical_data"
    /\ run.exit = 1 /\ ~run.committed
    /\ projectsExport.present /\ phasesExport.present
    /\ projectsExport.data # <<>>
    /\ ~Rejected(projectsExport.data, "projectId", projects, "projectId")
    /\ Rejected(phasesExport.data, "phaseid", phases, "phaseId")
    /\ projects = <<>>

(***************************************************************************)
(* Properties of the governance reports.                                   *)
(***************************************************************************)
\* The step is a run of a reporting script that hands this many rows to
\* its insert loop.
Tries(n) ==
    \/ run'.script = "02_backfill_projects" /\ n = Len(projectsExport.data)
    \/ run'.script \in {"03_backfill_phases", "03_backfill_phases_simple"}
           /\ n = Len(phasesExport.data)
    \/ run'.script \in {"04_extract_steps", "04_extract_steps_simple"}
           /\ n = Len(run'.extracted)
    \/ run'.script \in Mergers /\ n = Len(logsExport.data)

\* C28: a run of a backfill, of 04_extract_steps, of
\* 04_extract_steps_simple or of a merger that meets a fatal error before
\* its commit writes no report; a run that writes its report has committed,
\* and the success_count and error_count of the report add up to the number
\* of rows that the run tried to insert.
ReportFollowsCommit ==
    [][run'.script \in Reporters =>
          /\ Fatal(run'.script) => ~run'.report
          /\ run'.report =>
                 /\ run'.committed
                 /\ Tries(run'.success_count + run'.error_count)]_vars

\* 05_merge_comms_simple has stored one entry of its batch of two, counted
\* the other as an error, committed and written its report.
ReportFollowsCommitWitness ==
    /\ run.script = "05_merge_comms_simple"
    /\ Len(logsExport.data) = 2
    /\ run.committed
    /\ run.report
    /\ run.success_count = 1
    /\ run.error_count = 1
    /\ Len(comms) >= 1

(***************************************************************************)
(* Properties of the rows that the store holds over a sequence of runs.    *)
(***************************************************************************)
\* No table has fewer rows after the step than before it.
NoTableShrinks ==
    /\ Len(projects') >= Len(projects)
    /\ Len(phases') >= Len(phases)
    /\ Len(steps') >= Len(steps)
    /\ Len(comms') >= Len(comms)

SessionInitialized ==
    client.constructed => client.session /\ client.result # "AttributeError"
====
